---- MODULE Spec2Model ----
(***************************************************************************)
(* Model of the call event processor of the live call analytics stack      *)
(* (event_processor/transcribe.py): the dispatcher                         *)
(* execute_process_event_api_mutation, the single mutations, and the       *)
(* concurrent fan-out of an ADD_TRANSCRIPT_SEGMENT event.                   *)
(*                                                                         *)
(* Python dicts are functions from key strings to values; a missing key is *)
(* a key outside the DOMAIN.  Times are integers in milliseconds.          *)
(* A coroutine advances from one await to the next in one step; between    *)
(* the steps of one coroutine the event loop may run the others.           *)
(***************************************************************************)
EXTENDS Integers, Sequences, FiniteSets, TLC

\* Number of invocations the event loop can hold at a time.
NumSlots == 2
Slots == 1..NumSlots

VARIABLES
    IS_SENTIMENT_ANALYSIS_ENABLED,  \* module constant read from the environment
    LEXV2_CLIENT,                   \* module globals written by every invocation
    IS_LEX_AGENT_ASSIST_ENABLED,
    LEX_BOT_ID,
    LAMBDA_CLIENT,
    LAMBDA_AGENT_ASSIST_FUNCTION_ARN,
    uuidCounter,                    \* uuid4 values handed out so far
    store,                          \* persistence layer: the SegmentIds persisted
    transportRaises,                \* the transport raises its errors (or returns them)
    collaborators,                  \* the answers the collaborators can give in this behaviour
    redelivery,                     \* what the first processing of a redelivered event left
    pc,                             \* per slot: where the invocation stands
    event,                          \* per slot: the call event as delivered
    message,                        \* per slot: the dict the invocation works on
    agent_assist_args,              \* per slot: the argument of the invocation
    schema,                         \* per slot: appsync_session.client.schema is set
    lambda_enabled,                 \* per slot: local IS_LAMBDA_AGENT_ASSIST_ENABLED
    tasks,                          \* per slot: the coroutines awaited, in dispatch order
    outOfOrder,                     \* per slot: a task completed before an earlier one
    return_value,                   \* per slot: {successes, errors}
    raised                          \* per slot: the exception that left the invocation

globals == <<LEXV2_CLIENT, IS_LEX_AGENT_ASSIST_ENABLED, LEX_BOT_ID, LAMBDA_CLIENT,
             LAMBDA_AGENT_ASSIST_FUNCTION_ARN>>
environment == <<IS_SENTIMENT_ANALYSIS_ENABLED, transportRaises, collaborators>>
locals == <<pc, event, message, agent_assist_args, schema, lambda_enabled, tasks,
            outOfOrder, return_value, raised>>
vars == <<globals, environment, uuidCounter, store, redelivery, locals>>

-----------------------------------------------------------------------------
(* Python values *)

None == "None"
NoException == "no exception"

Get(d, k, default) == IF k \in DOMAIN d THEN d[k] ELSE default
\* {**a, **b}: the keys of b win
Merge(a, b) == [k \in DOMAIN a \cup DOMAIN b |-> IF k \in DOMAIN b THEN b[k] ELSE a[k]]
Put(d, k, v) == Merge(d, k :> v)
EmptyDict == [k \in {} |-> None]

\* get_ttl(): a timestamp; its value never decides a branch
get_ttl == "now + DYNAMODB_EXPIRATION_IN_DAYS"
utcnow == "utcnow"

CALL_EVENT_TYPE_TO_STATUS ==
    [ START                        |-> "STARTED",
      START_TRANSCRIPT             |-> "TRANSCRIBING",
      CONTINUE_TRANSCRIPT          |-> "TRANSCRIBING",
      CONTINUE                     |-> "TRANSCRIBING",
      END_TRANSCRIPT               |-> "ENDED",
      TRANSCRIPT_ERROR             |-> "ERRORED ",
      ERROR                        |-> "ERRORED ",
      END                          |-> "ENDED",
      ADD_CHANNEL_S3_RECORDING_URL |-> "ENDED",
      ADD_S3_RECORDING_URL         |-> "ENDED" ]

\* the event types of the update-status branch of the dispatcher
StatusEventTypes ==
    { "START_TRANSCRIPT", "CONTINUE_TRANSCRIPT", "CONTINUE", "END_TRANSCRIPT",
      "TRANSCRIPT_ERROR", "ERROR", "END", "ADD_CHANNEL_S3_RECORDING_URL" }

\* the keys transform_segment_to_add_transcript reads with message[...]
SegmentKeys ==
    { "CallId", "Channel", "StreamArn", "TransactionId", "SegmentId",
      "StartTime", "EndTime", "Transcript", "IsPartial" }

transform_segment_to_add_transcript(m) ==
    [k \in SegmentKeys |-> m[k]]
        @@ [CreatedAt |-> utcnow, ExpiresAfter |-> get_ttl, Status |-> "TRANSCRIBING"]

-----------------------------------------------------------------------------
(* Values of a coroutine: what it returned or raised *)

Response(name)  == [tag |-> "response", msg |-> name]
Dict(what)      == [tag |-> "dict", msg |-> what]
Exception(what) == [tag |-> "exception", msg |-> what]
isinstance_Exception(v) == v.tag = "exception"

Pending == [status |-> "pending", value |-> Dict("{}")]
Returned(v) == [status |-> "returned", value |-> v]
Raised(v) == [status |-> "raised", value |-> v]

NoResponse == [none |-> TRUE]

\* A coroutine created by the dispatcher.  kind names its function, input is
\* the mutation input (or the transcript_segment_args of a trigger), content
\* the text sent to the agent, calls the collaborator calls it made so far.
Coroutine(kind, input, content, ignore) ==
    [ kind |-> kind, pc |-> "created", input |-> input, content |-> content,
      ignore |-> ignore, response |-> NoResponse, calls |-> <<>>,
      result |-> Pending ]

-----------------------------------------------------------------------------
(* The mutation transport and the persistence layer behind it *)

Seg1 == [origin |-> "transcribe", n |-> 1]
uuid4(n) == [origin |-> "uuid4", n |-> n]

\* What the persistence layer can answer to one mutation: it applies it, it
\* rejects a segment whose SegmentId it already holds, or the call fails.
TransportOutcomes(name, input) ==
    {"ok"}
    \cup (IF name = "addTranscriptSegment" /\ input["SegmentId"] \in store
          THEN {"item put condition failure"} ELSE {})
    \cup (IF collaborators.fail THEN {"transport failure"} ELSE {})

StoreAfter(name, input, outcome) ==
    IF name = "addTranscriptSegment" /\ outcome = "ok"
    THEN store \cup {input["SegmentId"]}
    ELSE store

\* line 153: the predicate add_transcript_segments hands to the transport
ignore_exception_fn(e) == IF e = "item put condition failure" THEN TRUE ELSE FALSE

should_ignore_exception_fn(predicate, e) ==
    IF predicate = "ignore_exception_fn" THEN ignore_exception_fn(e) ELSE FALSE

\* The result of one call of the transport, given the layer's answer.
execute_gql_query_with_retries(name, predicate, outcome) ==
    IF outcome = "ok" THEN Returned(Response(name))
    ELSE IF should_ignore_exception_fn(predicate, outcome) THEN Returned(Response("ignored"))
    ELSE IF transportRaises THEN Raised(Exception(outcome))
    ELSE Returned(Exception(outcome))

MutationCall(name, input, predicate) ==
    [api |-> "execute_gql_query_with_retries", mutation |-> name, input |-> input,
     should_ignore_exception_fn |-> predicate]

-----------------------------------------------------------------------------
(* What a function does up to its first await: it raised, it returned, or  *)
(* it is suspended on the coroutines it awaits.                             *)

Raise(e)       == [how |-> "raise", exc |-> e, value |-> Dict("{}"), tasks |-> <<>>]
Return(v)      == [how |-> "return", exc |-> NoException, value |-> v, tasks |-> <<>>]
Await(ts)      == [how |-> "await", exc |-> NoException, value |-> Dict("{}"), tasks |-> ts]

SchemaError == "ValueError: invalid AppSync schema"
KeyError == "KeyError"

execute_create_call_mutation(m, sch) ==
    IF ~sch THEN Raise(SchemaError)
    ELSE Await(<<Coroutine("createCall", m, "", "default")>>)

\* mutant: the STARTED status is sent like every other status
execute_update_call_status_mutation_NoShortCircuit(m, sch) ==
    LET event_type == Get(m, "EventType", None)
        status == IF event_type \in DOMAIN CALL_EVENT_TYPE_TO_STATUS
                  THEN CALL_EVENT_TYPE_TO_STATUS[event_type] ELSE None
    IN  IF status = None
        THEN Raise("TypeError: unrecognized status from event type in update call")
        ELSE IF ~sch THEN Raise(SchemaError)
        ELSE Await(<<Coroutine("updateCallStatus", Put(m, "Status", status), "", "default")>>)
execute_update_call_status_mutation(m, sch) ==
    LET event_type == Get(m, "EventType", None)
        status == IF event_type \in DOMAIN CALL_EVENT_TYPE_TO_STATUS
                  THEN CALL_EVENT_TYPE_TO_STATUS[event_type] ELSE None
    IN  IF status = None
        THEN Raise("TypeError: unrecognized status from event type in update call")
        ELSE IF status = "STARTED" THEN Return(Dict("ok"))
        ELSE IF ~sch THEN Raise(SchemaError)
        ELSE Await(<<Coroutine("updateCallStatus", Put(m, "Status", status), "", "default")>>)

\* mutant: only an absent RecordingUrl fails, an empty one is sent
execute_add_s3_recording_mutation_AbsentOnly(m, sch) ==
    LET recording_url == Get(m, "RecordingUrl", None)
    IN  IF recording_url = None
        THEN Raise("TypeError: recording url doesn't exist in add s3 recording url event")
        ELSE IF ~sch THEN Raise(SchemaError)
        ELSE Await(<<Coroutine("updateRecordingUrl", Put(m, "RecordingUrl", recording_url),
                               "", "default")>>)
execute_add_s3_recording_mutation(m, sch) ==
    LET recording_url == Get(m, "RecordingUrl", None)
    IN  IF recording_url \in {None, ""}
        THEN Raise("TypeError: recording url doesn't exist in add s3 recording url event")
        ELSE IF ~sch THEN Raise(SchemaError)
        ELSE Await(<<Coroutine("updateRecordingUrl", Put(m, "RecordingUrl", recording_url),
                               "", "default")>>)

execute_update_agent_mutation(m, sch) ==
    LET agentId == Get(m, "AgentId", None)
    IN  IF agentId \in {None, ""}
        THEN Raise("TypeError: AgentId doesn't exist in UPDATE_AGENT event")
        ELSE IF ~sch THEN Raise(SchemaError)
        ELSE Await(<<Coroutine("updateAgent", Put(m, "AgentId", agentId), "", "default")>>)

\* mutant: a partial segment is not persisted
add_transcript_segments_FinalOnly(m, sch) ==
    IF ~sch THEN Raise(SchemaError)
    ELSE IF ~(SegmentKeys \subseteq DOMAIN m) THEN Raise(KeyError)
    ELSE IF m["IsPartial"] THEN Await(<<>>)
    ELSE Await(<<Coroutine("add_transcript_segments", transform_segment_to_add_transcript(m),
                           "", "ignore_exception_fn")>>)

add_transcript_segments(m, sch) ==
    IF ~sch THEN Raise(SchemaError)
    ELSE IF ~(SegmentKeys \subseteq DOMAIN m) THEN Raise(KeyError)
    ELSE Await(<<Coroutine("add_transcript_segments", transform_segment_to_add_transcript(m),
                           "", "ignore_exception_fn")>>)

\* the coroutine add_sentiment_to_transcript(message, appsync_session), not yet started
add_transcript_sentiment_analysis(m) ==
    Await(<<Coroutine("add_sentiment_to_transcript", m, "", "default")>>)

\* line 473: end_time = float(end_time) + 0.001, in milliseconds
EndTimeOffset == 1

AssistKeys == {"CallId", "Channel", "IsPartial", "SegmentId", "StartTime", "EndTime", "Transcript"}

\* mutant: the assistant segment reuses the SegmentId of its source
transcript_segment_args_SourceSegmentId(m, id) ==
    [ CallId |-> m["CallId"], Channel |-> "AGENT_ASSISTANT", CreatedAt |-> utcnow,
      EndTime |-> m["EndTime"] + EndTimeOffset, ExpiresAfter |-> get_ttl,
      IsPartial |-> m["IsPartial"], SegmentId |-> m["SegmentId"], StartTime |-> m["StartTime"],
      Status |-> "TRANSCRIBING" ]
\* the transcript_segment_args both triggers build (lines 482-492, 593-603)
transcript_segment_args(m, id) ==
    [ CallId |-> m["CallId"], Channel |-> "AGENT_ASSISTANT", CreatedAt |-> utcnow,
      EndTime |-> m["EndTime"] + EndTimeOffset, ExpiresAfter |-> get_ttl,
      IsPartial |-> m["IsPartial"], SegmentId |-> id, StartTime |-> m["StartTime"],
      Status |-> "TRANSCRIBING" ]

\* mutant: the bot is asked for partial segments too
add_lex_agent_assistances_Partial(m, id) ==
    IF ~(AssistKeys \subseteq DOMAIN m) THEN Raise(KeyError)
    ELSE IF m["Channel"] = "CALLER"
    THEN Await(<<Coroutine("send_lex_agent_assist", transcript_segment_args(m, id),
                           m["Transcript"], "default")>>)
    ELSE Await(<<>>)

\* id is the value the next call of uuid.uuid4() gives
add_lex_agent_assistances(m, id) ==
    IF ~(AssistKeys \subseteq DOMAIN m) THEN Raise(KeyError)
    ELSE IF m["Channel"] = "CALLER" /\ ~m["IsPartial"]
    THEN Await(<<Coroutine("send_lex_agent_assist", transcript_segment_args(m, id),
                           m["Transcript"], "default")>>)
    ELSE Await(<<>>)

add_lambda_agent_assistances(m, id) ==
    IF ~(AssistKeys \subseteq DOMAIN m) THEN Raise(KeyError)
    ELSE IF m["Channel"] = "CALLER" /\ ~m["IsPartial"]
    THEN Await(<<Coroutine("send_lambda_agent_assist", transcript_segment_args(m, id),
                           m["Transcript"], "default")>>)
    ELSE Await(<<>>)

-----------------------------------------------------------------------------
(* The dispatcher up to its first await (lines 634-757) *)

Skip == [how |-> "skip", exc |-> NoException, value |-> Dict("{}"), tasks |-> <<>>]

\* lines 686-721: the task lists of an ADD_TRANSCRIPT_SEGMENT event, in the
\* order gather receives them; n is the number of uuid4 values used so far
\* mutant: the sentiment task is built for partial segments too
FanOut_SentimentOnPartial(m, sch, sentiment, lex, lambda, n) ==
    LET a == add_transcript_segments(m, sch)
        s == IF sentiment THEN add_transcript_sentiment_analysis(m) ELSE Await(<<>>)
        l == IF lex THEN add_lex_agent_assistances(m, uuid4(n + 1)) ELSE Await(<<>>)
        f == IF lambda THEN add_lambda_agent_assistances(m, uuid4(n + Len(l.tasks) + 1))
             ELSE Await(<<>>)
    IN  IF a.how = "raise" THEN a
        ELSE IF l.how = "raise" THEN l
        ELSE IF f.how = "raise" THEN f
        ELSE Await(a.tasks \o s.tasks \o l.tasks \o f.tasks)

\* mutant: the sentiment task stands in for the base task
FanOut_SentimentReplacesBase(m, sch, sentiment, lex, lambda, n) ==
    LET a == add_transcript_segments(m, sch)
        s == IF sentiment /\ ~Get(m, "IsPartial", TRUE)
             THEN add_transcript_sentiment_analysis(m) ELSE Await(<<>>)
        l == IF lex THEN add_lex_agent_assistances(m, uuid4(n + 1)) ELSE Await(<<>>)
        f == IF lambda THEN add_lambda_agent_assistances(m, uuid4(n + Len(l.tasks) + 1))
             ELSE Await(<<>>)
    IN  IF a.how = "raise" THEN a
        ELSE IF l.how = "raise" THEN l
        ELSE IF f.how = "raise" THEN f
        ELSE Await((IF s.tasks = <<>> THEN a.tasks ELSE s.tasks) \o l.tasks \o f.tasks)

FanOut(m, sch, sentiment, lex, lambda, n) ==
    LET a == add_transcript_segments(m, sch)
        s == IF sentiment /\ ~Get(m, "IsPartial", TRUE)
             THEN add_transcript_sentiment_analysis(m) ELSE Await(<<>>)
        l == IF lex THEN add_lex_agent_assistances(m, uuid4(n + 1)) ELSE Await(<<>>)
        f == IF lambda THEN add_lambda_agent_assistances(m, uuid4(n + Len(l.tasks) + 1))
             ELSE Await(<<>>)
    IN  IF a.how = "raise" THEN a
        ELSE IF l.how = "raise" THEN l
        ELSE IF f.how = "raise" THEN f
        ELSE Await(a.tasks \o s.tasks \o l.tasks \o f.tasks)

\* mutant: ADD_CHANNEL_S3_RECORDING_URL is routed with ADD_S3_RECORDING_URL
Branch_RecordingUrls(event_type) ==
    IF event_type = "START" THEN "CREATE CALL"
    ELSE IF event_type \in StatusEventTypes \ {"ADD_CHANNEL_S3_RECORDING_URL"}
    THEN "update status"
    ELSE IF event_type = "ADD_TRANSCRIPT_SEGMENT" THEN "Add Transcript Segment"
    ELSE IF event_type \in {"ADD_S3_RECORDING_URL", "ADD_CHANNEL_S3_RECORDING_URL"}
    THEN "Add recording url"
    ELSE IF event_type = "UPDATE_AGENT" THEN "Update AgentId for call"
    ELSE "unknown event type"

\* mutant: an event type outside the table is handled as a status event
Branch_DefaultStatus(event_type) ==
    IF event_type = "START" THEN "CREATE CALL"
    ELSE IF event_type = "ADD_TRANSCRIPT_SEGMENT" THEN "Add Transcript Segment"
    ELSE IF event_type = "ADD_S3_RECORDING_URL" THEN "Add recording url"
    ELSE IF event_type = "UPDATE_AGENT" THEN "Update AgentId for call"
    ELSE "update status"
\* the branch of the if/elif chain an event type selects, named by what it logs
Branch(event_type) ==
    IF event_type = "START" THEN "CREATE CALL"
    ELSE IF event_type \in StatusEventTypes THEN "update status"
    ELSE IF event_type = "ADD_TRANSCRIPT_SEGMENT" THEN "Add Transcript Segment"
    ELSE IF event_type = "ADD_S3_RECORDING_URL" THEN "Add recording url"
    ELSE IF event_type = "UPDATE_AGENT" THEN "Update AgentId for call"
    ELSE "unknown event type"

Dispatch(m, sch, sentiment, lex, lambda, n) ==
    LET b == Branch(Get(m, "EventType", ""))
    IN  IF b = "CREATE CALL" THEN execute_create_call_mutation(m, sch)
        ELSE IF b = "update status" THEN execute_update_call_status_mutation(m, sch)
        ELSE IF b = "Add Transcript Segment" THEN FanOut(m, sch, sentiment, lex, lambda, n)
        ELSE IF b = "Add recording url" THEN execute_add_s3_recording_mutation(m, sch)
        ELSE IF b = "Update AgentId for call" THEN execute_update_agent_mutation(m, sch)
        ELSE Skip

\* a coroutine of a trigger: its SegmentId came from uuid.uuid4()
IsTrigger(c) == c.kind \in {"send_lex_agent_assist", "send_lambda_agent_assist"}

EmptyResult == [successes |-> <<>>, errors |-> <<>>]

\* mutant: an exception discards what was collected before it
Collect_FailureDiscards(rv, t, response) ==
    IF isinstance_Exception(response)
    THEN [successes |-> <<>>, errors |-> <<[task |-> t, value |-> response]>>]
    ELSE [rv EXCEPT !.successes = Append(@, [task |-> t, value |-> response])]

\* lines 660-663 and 723-727: one response goes to errors or to successes;
\* t is the position of its task in the dispatch order
Collect(rv, t, response) ==
    IF isinstance_Exception(response)
    THEN [rv EXCEPT !.errors = Append(@, [task |-> t, value |-> response])]
    ELSE [rv EXCEPT !.successes = Append(@, [task |-> t, value |-> response])]

-----------------------------------------------------------------------------
(* The inputs *)

BaseEvent == [CallId |-> "call-1"]
Ev(t) == Put(BaseEvent, "EventType", t)

SegmentEvent(channel, is_partial) ==
    Merge(Ev("ADD_TRANSCRIPT_SEGMENT"),
          [ Channel |-> channel, StreamArn |-> "arn:stream", TransactionId |-> "tx-1",
            SegmentId |-> Seg1, StartTime |-> 1000, EndTime |-> 2000,
            Transcript |-> "what's my balance", IsPartial |-> is_partial ])

Without(d, k) == [x \in DOMAIN d \ {k} |-> d[x]]

Channels == {"CALLER", "AGENT", "AGENT_ASSISTANT"}

SegmentEvents == {SegmentEvent(c, p) : c \in Channels, p \in BOOLEAN}

CallEvents ==
    {Ev(t) : t \in {"START", "UNKNOWN_TYPE", "ADD_S3_RECORDING_URL", "UPDATE_AGENT"}
                   \cup StatusEventTypes}
    \cup {BaseEvent}
    \cup SegmentEvents
    \cup {Without(SegmentEvent("CALLER", FALSE), "Transcript"),
          Without(SegmentEvent("CALLER", FALSE), "IsPartial")}
    \cup {Put(Ev("ADD_S3_RECORDING_URL"), "RecordingUrl", u) : u \in {"", "s3://recording"}}
    \cup {Put(Ev("UPDATE_AGENT"), "AgentId", a) : a \in {"", "agent-7"}}

LexArgs(x) == [lex_client |-> "lex-" \o x, lex_bot_id |-> "bot-" \o x]
LambdaArgs(x) ==
    [lambda_client |-> "lambda-" \o x, lambda_agent_assist_function_arn |-> "arn-" \o x]

AssistArgs(x) == {EmptyDict, LexArgs(x), LambdaArgs(x), Merge(LexArgs(x), LambdaArgs(x))}

-----------------------------------------------------------------------------
(* The collaborators' answers *)

JsonText(v) == [json |-> "ok", value |-> v]
MalformedJson == [json |-> "malformed", value |-> EmptyDict]

SentimentResponse(category) ==
    [Sentiment |-> category, SentimentScore |-> "scores", ResponseMetadata |-> "metadata"]

SentimentResponses ==
    {SentimentResponse(c) : c \in {"POSITIVE", "NEGATIVE", "NEUTRAL", "MIXED"}}
    \cup {[ResponseMetadata |-> "metadata"]}

BotResponse(type, attributes, messages) ==
    [ sessionState |-> [dialogAction |-> [type |-> type], sessionAttributes |-> attributes],
      messages |-> messages ]

Markdown(text) == JsonText([altMessages |-> [markdown |-> text]])

BotNoAnswer ==
    BotResponse("Close", [qnabot_gotanswer |-> "false"], <<[content |-> "I don't know"]>>)
BotMarkdown ==
    BotResponse("Close", [qnabot_gotanswer |-> "true", appContext |-> Markdown("**answer**")],
                <<[content |-> "answer"]>>)
BotPlain == BotResponse("ElicitIntent", EmptyDict, <<[content |-> "answer"]>>)
BotSilent == BotResponse("ElicitIntent", EmptyDict, <<>>)

LexResponses == {BotNoAnswer, BotMarkdown, BotPlain, BotSilent}

LambdaResponses ==
    { [Payload |-> JsonText([message |-> "suggestion"])],
      [Payload |-> JsonText([message |-> ""])],
      [Payload |-> JsonText([result |-> "suggestion"])],
      [Payload |-> MalformedJson] }

\* an answer of a collaborator: a response, or the call raised
Answers(responses) ==
    {[ok |-> TRUE, response |-> r] : r \in responses}
    \cup (IF collaborators.fail THEN {[ok |-> FALSE, response |-> NoResponse]} ELSE {})

-----------------------------------------------------------------------------
(* Initial state: the module is imported, no invocation runs *)

IdleSlots ==
    /\ pc = [i \in Slots |-> "idle"]
    /\ event = [i \in Slots |-> EmptyDict]
    /\ message = [i \in Slots |-> EmptyDict]
    /\ agent_assist_args = [i \in Slots |-> EmptyDict]
    /\ schema = [i \in Slots |-> FALSE]
    /\ lambda_enabled = [i \in Slots |-> FALSE]
    /\ tasks = [i \in Slots |-> <<>>]
    /\ outOfOrder = [i \in Slots |-> FALSE]
    /\ return_value = [i \in Slots |-> EmptyResult]
    /\ raised = [i \in Slots |-> NoException]

ModuleImported ==
    /\ IS_SENTIMENT_ANALYSIS_ENABLED \in BOOLEAN
    /\ LEXV2_CLIENT = None
    /\ IS_LEX_AGENT_ASSIST_ENABLED = FALSE
    /\ LEX_BOT_ID = "unset"
    /\ LAMBDA_CLIENT = None
    /\ LAMBDA_AGENT_ASSIST_FUNCTION_ARN = "unset"
    /\ uuidCounter = 0

NotRedelivered == [n |-> 0, store |-> {}, replies |-> <<>>]

Init ==
    /\ ModuleImported
    /\ IdleSlots
    /\ transportRaises \in BOOLEAN
    /\ collaborators = [sentiment |-> SentimentResponses, lex |-> LexResponses,
                        lambda |-> LambdaResponses, fail |-> TRUE]
    /\ store \in {{}, {Seg1}}
    /\ redelivery = NotRedelivered

-----------------------------------------------------------------------------
(* execute_process_event_api_mutation, from its call to its first await *)

Start(i, ev, args, sch) ==
    LET m == Put(ev, "ExpiresAfter", get_ttl)
        lex == Get(args, "lex_client", None) # None
        lambda == Get(args, "lambda_client", None) # None
        d == Dispatch(m, sch, IS_SENTIMENT_ANALYSIS_ENABLED, lex, lambda, uuidCounter)
        fanout == Branch(Get(m, "EventType", "")) = "Add Transcript Segment"
    IN  /\ LEXV2_CLIENT' = Get(args, "lex_client", None)
        /\ IS_LEX_AGENT_ASSIST_ENABLED' = lex
        /\ LEX_BOT_ID' = Get(args, "lex_bot_id", "")
        /\ LAMBDA_CLIENT' = Get(args, "lambda_client", None)
        /\ LAMBDA_AGENT_ASSIST_FUNCTION_ARN' = Get(args, "lambda_agent_assist_function_arn", "")
        /\ event' = [event EXCEPT ![i] = ev]
        /\ message' = [message EXCEPT ![i] = m]
        /\ agent_assist_args' = [agent_assist_args EXCEPT ![i] = args]
        /\ schema' = [schema EXCEPT ![i] = sch]
        /\ lambda_enabled' = [lambda_enabled EXCEPT ![i] = lambda]
        /\ tasks' = [tasks EXCEPT ![i] = d.tasks]
        /\ uuidCounter' = uuidCounter + Cardinality({t \in DOMAIN d.tasks : IsTrigger(d.tasks[t])})
        /\ raised' = [raised EXCEPT ![i] = d.exc]
        /\ return_value' = [return_value EXCEPT ![i] =
               IF d.how = "return" THEN Collect(EmptyResult, 1, d.value) ELSE EmptyResult]
        /\ pc' = [pc EXCEPT ![i] =
               IF d.how = "raise" THEN "raised"
               ELSE IF d.how = "await" THEN (IF fanout THEN "gather" ELSE "await")
               ELSE "returned"]
        /\ outOfOrder' = [outOfOrder EXCEPT ![i] = FALSE]
        /\ UNCHANGED <<environment, store>>

Invoke(i, ev, args, sch) ==
    /\ pc[i] = "idle"
    /\ Start(i, ev, args, sch)
    /\ UNCHANGED redelivery

-----------------------------------------------------------------------------
(* Lex agent assist: the reply of the bot *)

is_qnabot_noanswer(bot_response) ==
    /\ bot_response["sessionState"]["dialogAction"]["type"] = "Close"
    /\ Get(Get(bot_response["sessionState"], "sessionAttributes", EmptyDict),
           "qnabot_gotanswer", None) = "false"

\* [exc, message]: the exception raised, or the message returned
\* mutant: the plain message is preferred to the markdown of appContext
get_lex_agent_assist_message_PlainFirst(bot_response) ==
    LET attributes == Get(Get(bot_response, "sessionState", EmptyDict),
                          "sessionAttributes", EmptyDict)
        hasContext == "appContext" \in DOMAIN attributes
        appContext == attributes["appContext"].value
        markdown == IF hasContext
                    THEN Get(Get(appContext, "altMessages", EmptyDict), "markdown", None)
                    ELSE None
        text == IF markdown \notin {None, ""} THEN markdown ELSE ""
    IN  IF ~("sessionState" \in DOMAIN bot_response
             /\ "dialogAction" \in DOMAIN bot_response["sessionState"]
             /\ "type" \in DOMAIN bot_response["sessionState"]["dialogAction"])
        THEN [exc |-> KeyError, message |-> ""]
        ELSE IF is_qnabot_noanswer(bot_response) THEN [exc |-> NoException, message |-> ""]
        ELSE IF hasContext /\ attributes["appContext"].json = "malformed"
        THEN [exc |-> "JSONDecodeError", message |-> ""]
        ELSE IF "messages" \in DOMAIN bot_response /\ bot_response["messages"] # <<>>
        THEN [exc |-> NoException, message |-> bot_response["messages"][1]["content"]]
        ELSE [exc |-> NoException, message |-> text]
get_lex_agent_assist_message(bot_response) ==
    LET attributes == Get(Get(bot_response, "sessionState", EmptyDict),
                          "sessionAttributes", EmptyDict)
        hasContext == "appContext" \in DOMAIN attributes
        appContext == attributes["appContext"].value
        markdown == IF hasContext
                    THEN Get(Get(appContext, "altMessages", EmptyDict), "markdown", None)
                    ELSE None
        text == IF markdown \notin {None, ""} THEN markdown ELSE ""
    IN  IF ~("sessionState" \in DOMAIN bot_response
             /\ "dialogAction" \in DOMAIN bot_response["sessionState"]
             /\ "type" \in DOMAIN bot_response["sessionState"]["dialogAction"])
        THEN [exc |-> KeyError, message |-> ""]
        ELSE IF is_qnabot_noanswer(bot_response) THEN [exc |-> NoException, message |-> ""]
        ELSE IF hasContext /\ attributes["appContext"].json = "malformed"
        THEN [exc |-> "JSONDecodeError", message |-> ""]
        ELSE IF text = "" /\ "messages" \in DOMAIN bot_response
                /\ bot_response["messages"] # <<>>
        THEN [exc |-> NoException, message |-> bot_response["messages"][1]["content"]]
        ELSE [exc |-> NoException, message |-> text]

(* Lambda agent assist: the reply of the function *)

\* the payload of the function's response cannot be read as {message: ...}:
\* the try block of lines 512-515 raises
Unreadable(lambda_response) ==
    \/ "Payload" \notin DOMAIN lambda_response
    \/ lambda_response["Payload"].json = "malformed"
    \/ "message" \notin DOMAIN lambda_response["Payload"].value

\* lines 517-520: LOGGER.error(..., extra=error) hands the logger an exception
\* where logging expects a mapping; the logger is not part of this module, and
\* the call either returns or raises TypeError, as logging.Logger.makeRecord
\* does when it iterates extra.
LoggerOutcomes == {"logged", "TypeError: extra is not a mapping"}

\* [exc, message]: the exception that left the handler, or the message returned
get_lambda_agent_assist_message(lambda_response, logged) ==
    IF Unreadable(lambda_response)
    THEN IF logged = "logged" THEN [exc |-> NoException, message |-> ""]
         ELSE [exc |-> logged, message |-> ""]
    ELSE [exc |-> NoException, message |-> lambda_response["Payload"].value["message"]]

-----------------------------------------------------------------------------
(* The steps of the coroutines: each operator gives the coroutine after the *)
(* step, for every answer the collaborator can give.                        *)

Called(c, call) == [c EXCEPT !.calls = Append(@, call)]
Done(c, result) == [c EXCEPT !.pc = "done", !.result = result]

MutationName(c) ==
    IF c.kind \in {"createCall", "updateCallStatus", "updateRecordingUrl", "updateAgent"}
    THEN c.kind ELSE "addTranscriptSegment"

\* the await of execute_gql_query_with_retries, given the layer's answer
Mutate(c, outcome) ==
    Done(Called(c, MutationCall(MutationName(c), c.input, c.ignore)),
         execute_gql_query_with_retries(MutationName(c), c.ignore, outcome))

\* mutant: a failed classification persists the segment without sentiment
SentimentDetected_PersistOnFailure(c, sch, answer) ==
    LET transcript_segment == transform_segment_to_add_transcript(c.input)
        call == [api |-> "detect_sentiment", Text |-> transcript_segment["Transcript"]]
        sentiment_response == answer.response
        sentiment == [k \in DOMAIN sentiment_response \cap {"Sentiment", "SentimentScore"}
                         |-> sentiment_response[k]]
        weighted == IF Get(sentiment, "Sentiment", None) \in {"POSITIVE", "NEGATIVE"}
                    THEN Put(sentiment, "SentimentWeighted", "weighted score")
                    ELSE sentiment
    IN  IF ~sch THEN Done(c, Raised(Exception(SchemaError)))
        ELSE IF ~(SegmentKeys \subseteq DOMAIN c.input) THEN Done(c, Raised(Exception(KeyError)))
        ELSE IF ~answer.ok
        THEN [Called(c, call) EXCEPT !.pc = "persist", !.input = transcript_segment]
        ELSE IF DOMAIN sentiment = {}
        THEN Done([Called(c, call) EXCEPT !.response = sentiment_response], Returned(Dict("{}")))
        ELSE [Called(c, call) EXCEPT !.pc = "persist", !.response = sentiment_response,
                                     !.input = Merge(transcript_segment, weighted)]
\* mutant: every category gets a weighted score
SentimentDetected_AlwaysWeighted(c, sch, answer) ==
    LET transcript_segment == transform_segment_to_add_transcript(c.input)
        call == [api |-> "detect_sentiment", Text |-> transcript_segment["Transcript"]]
        sentiment_response == answer.response
        sentiment == [k \in DOMAIN sentiment_response \cap {"Sentiment", "SentimentScore"}
                         |-> sentiment_response[k]]
        weighted == Put(sentiment, "SentimentWeighted", "weighted score")
    IN  IF ~sch THEN Done(c, Raised(Exception(SchemaError)))
        ELSE IF ~(SegmentKeys \subseteq DOMAIN c.input) THEN Done(c, Raised(Exception(KeyError)))
        ELSE IF ~answer.ok
        THEN Done(Called(c, call), Raised(Exception("detect_sentiment failed")))
        ELSE IF DOMAIN sentiment = {}
        THEN Done([Called(c, call) EXCEPT !.response = sentiment_response], Returned(Dict("{}")))
        ELSE [Called(c, call) EXCEPT !.pc = "persist", !.response = sentiment_response,
                                     !.input = Merge(transcript_segment, weighted)]
\* lines 189-219 of add_sentiment_to_transcript, and line 236 when no
\* sentiment came back
SentimentDetected(c, sch, answer) ==
    LET transcript_segment == transform_segment_to_add_transcript(c.input)
        call == [api |-> "detect_sentiment", Text |-> transcript_segment["Transcript"]]
        sentiment_response == answer.response
        sentiment == [k \in DOMAIN sentiment_response \cap {"Sentiment", "SentimentScore"}
                         |-> sentiment_response[k]]
        weighted == IF Get(sentiment, "Sentiment", None) \in {"POSITIVE", "NEGATIVE"}
                    THEN Put(sentiment, "SentimentWeighted", "weighted score")
                    ELSE sentiment
    IN  IF ~sch THEN Done(c, Raised(Exception(SchemaError)))
        ELSE IF ~(SegmentKeys \subseteq DOMAIN c.input) THEN Done(c, Raised(Exception(KeyError)))
        ELSE IF ~answer.ok
        THEN Done(Called(c, call), Raised(Exception("detect_sentiment failed")))
        ELSE IF DOMAIN sentiment = {}
        THEN Done([Called(c, call) EXCEPT !.response = sentiment_response], Returned(Dict("{}")))
        ELSE [Called(c, call) EXCEPT !.pc = "persist", !.response = sentiment_response,
                                     !.input = Merge(transcript_segment, weighted)]

\* mutant: an empty reply is persisted too
LexRecognized_PersistsEmpty(c, sch, client, bot, answer) ==
    LET call == [api |-> "recognize_text_lex", text |-> c.content,
                 session_id |-> c.input["CallId"], lex_client |-> client, bot_id |-> bot]
        reply == get_lex_agent_assist_message(answer.response)
    IN  IF ~sch THEN Done(c, Raised(Exception(SchemaError)))
        ELSE IF ~answer.ok
        THEN Done(Called(c, call), Raised(Exception("recognize_text_lex failed")))
        ELSE IF reply.exc # NoException
        THEN Done([Called(c, call) EXCEPT !.response = answer.response],
                  Raised(Exception(reply.exc)))
        ELSE [Called(c, call) EXCEPT !.pc = "persist", !.response = answer.response,
                                     !.input = Put(c.input, "Transcript", reply.message)]
\* lines 421-443 and 459 of send_lex_agent_assist; client and bot are the
\* globals LEXV2_CLIENT and LEX_BOT_ID when the coroutine runs
LexRecognized(c, sch, client, bot, answer) ==
    LET call == [api |-> "recognize_text_lex", text |-> c.content,
                 session_id |-> c.input["CallId"], lex_client |-> client, bot_id |-> bot]
        reply == get_lex_agent_assist_message(answer.response)
    IN  IF ~sch THEN Done(c, Raised(Exception(SchemaError)))
        ELSE IF ~answer.ok
        THEN Done(Called(c, call), Raised(Exception("recognize_text_lex failed")))
        ELSE IF reply.exc # NoException
        THEN Done([Called(c, call) EXCEPT !.response = answer.response],
                  Raised(Exception(reply.exc)))
        ELSE IF reply.message = ""
        THEN Done([Called(c, call) EXCEPT !.response = answer.response], Returned(Dict("{}")))
        ELSE [Called(c, call) EXCEPT !.pc = "persist", !.response = answer.response,
                                     !.input = Put(c.input, "Transcript", reply.message)]

\* lines 529-554 and 570 of send_lambda_agent_assist
LambdaInvoked(c, sch, client, arn, answer, logged) ==
    LET payload == [text |-> c.content, call_id |-> c.input["CallId"],
                    transcript_segment_args |-> c.input]
        call == [api |-> "invoke_lambda", payload |-> payload, lambda_client |-> client,
                 lambda_agent_assist_function_arn |-> arn]
        reply == get_lambda_agent_assist_message(answer.response, logged)
    IN  IF ~sch THEN Done(c, Raised(Exception(SchemaError)))
        ELSE IF ~answer.ok
        THEN Done(Called(c, call), Raised(Exception("invoke_lambda failed")))
        ELSE IF reply.exc # NoException
        THEN Done([Called(c, call) EXCEPT !.response = answer.response],
                  Raised(Exception(reply.exc)))
        ELSE IF reply.message = ""
        THEN Done([Called(c, call) EXCEPT !.response = answer.response], Returned(Dict("{}")))
        ELSE [Called(c, call) EXCEPT !.pc = "persist", !.response = answer.response,
                                     !.input = Put(c.input, "Transcript", reply.message)]

-----------------------------------------------------------------------------
(* The event loop: one step of one coroutine *)

\* coroutine t of invocation i becomes c
Step(i, t, c) ==
    /\ tasks' = [tasks EXCEPT ![i][t] = c]
    /\ outOfOrder' = [outOfOrder EXCEPT ![i] =
           @ \/ (c.pc = "done" /\ \E u \in 1..(t - 1) : tasks[i][u].pc # "done")]

\* A single mutation answers: its function returns the result to the
\* dispatcher (lines 660-663 and alike), or the exception leaves both.
MutationAnswers(i) ==
    /\ pc[i] = "await"
    /\ \E outcome \in TransportOutcomes(MutationName(tasks[i][1]), tasks[i][1].input) :
         LET c == Mutate(tasks[i][1], outcome)
         IN  /\ Step(i, 1, c)
             /\ store' = StoreAfter(MutationName(c), tasks[i][1].input, outcome)
             /\ pc' = [pc EXCEPT ![i] =
                    IF c.result.status = "raised" THEN "raised" ELSE "returned"]
             /\ raised' = [raised EXCEPT ![i] =
                    IF c.result.status = "raised" THEN c.result.value.msg ELSE NoException]
             /\ return_value' = [return_value EXCEPT ![i] =
                    IF c.result.status = "raised" THEN @ ELSE Collect(@, 1, c.result.value)]
    /\ UNCHANGED <<globals, environment, uuidCounter, redelivery, event, message,
                   agent_assist_args, schema, lambda_enabled>>

frame == <<globals, environment, uuidCounter, redelivery, pc, event, message,
           agent_assist_args, schema, lambda_enabled, return_value, raised>>

\* the base task: the transport call add_transcript_segments created
PersistSegment(i) ==
    /\ pc[i] = "gather"
    /\ \E t \in DOMAIN tasks[i] :
         /\ tasks[i][t].kind = "add_transcript_segments"
         /\ tasks[i][t].pc = "created"
         /\ \E outcome \in TransportOutcomes("addTranscriptSegment", tasks[i][t].input) :
              /\ Step(i, t, Mutate(tasks[i][t], outcome))
              /\ store' = StoreAfter("addTranscriptSegment", tasks[i][t].input, outcome)
    /\ UNCHANGED frame

\* add_sentiment_to_transcript up to the end of its await of detect_sentiment
DetectSentiment(i) ==
    /\ pc[i] = "gather"
    /\ \E t \in DOMAIN tasks[i] :
         /\ tasks[i][t].kind = "add_sentiment_to_transcript"
         /\ tasks[i][t].pc = "created"
         /\ \E answer \in Answers(collaborators.sentiment) :
              Step(i, t, SentimentDetected(tasks[i][t], schema[i], answer))
    /\ UNCHANGED <<frame, store>>

\* send_lex_agent_assist up to the end of its await of recognize_text_lex
RecognizeText(i) ==
    /\ pc[i] = "gather"
    /\ \E t \in DOMAIN tasks[i] :
         /\ tasks[i][t].kind = "send_lex_agent_assist"
         /\ tasks[i][t].pc = "created"
         /\ \E answer \in Answers(collaborators.lex) :
              Step(i, t, LexRecognized(tasks[i][t], schema[i], LEXV2_CLIENT, LEX_BOT_ID,
                                       answer))
    /\ UNCHANGED <<frame, store>>

\* send_lambda_agent_assist up to the end of its await of invoke_lambda
InvokeLambda(i) ==
    /\ pc[i] = "gather"
    /\ \E t \in DOMAIN tasks[i] :
         /\ tasks[i][t].kind = "send_lambda_agent_assist"
         /\ tasks[i][t].pc = "created"
         /\ \E answer \in Answers(collaborators.lambda), logged \in LoggerOutcomes :
              Step(i, t, LambdaInvoked(tasks[i][t], schema[i], LAMBDA_CLIENT,
                                       LAMBDA_AGENT_ASSIST_FUNCTION_ARN, answer, logged))
    /\ UNCHANGED <<frame, store>>

\* the mutation that ends add_sentiment_to_transcript (230-234),
\* send_lex_agent_assist (453-457) and send_lambda_agent_assist (564-568)
PersistDerived(i) ==
    /\ pc[i] = "gather"
    /\ \E t \in DOMAIN tasks[i] :
         /\ tasks[i][t].pc = "persist"
         /\ \E outcome \in TransportOutcomes("addTranscriptSegment", tasks[i][t].input) :
              /\ Step(i, t, Mutate(tasks[i][t], outcome))
              /\ store' = StoreAfter("addTranscriptSegment", tasks[i][t].input, outcome)
    /\ UNCHANGED frame

\* gather(..., return_exceptions=True): the value a task returned, or the
\* exception it raised, at the task's place
task_responses(ts) == [t \in DOMAIN ts |-> ts[t].result.value]

\* mutant: the responses are collected from the last task to the first
Partition_Reversed(responses, t, rv) ==
    LET n == Len(responses)
        collected[k \in 0..n] ==
            IF k = 0 THEN rv
            ELSE Collect(collected[k - 1], n - k + 1, responses[n - k + 1])
    IN  IF t > n THEN rv ELSE collected[n - t + 1]
RECURSIVE Partition(_, _, _)
\* lines 723-727, from response t on
Partition(responses, t, rv) ==
    IF t > Len(responses) THEN rv
    ELSE Partition(responses, t + 1, Collect(rv, t, responses[t]))

\* mutant: the dispatcher returns as soon as one task has raised
GatherReturns_FirstException(i) ==
    /\ pc[i] = "gather"
    /\ \/ \A t \in DOMAIN tasks[i] : tasks[i][t].pc = "done"
       \/ \E t \in DOMAIN tasks[i] : tasks[i][t].result.status = "raised"
    /\ return_value' = [return_value EXCEPT ![i] =
           Partition(task_responses(tasks[i]), 1, @)]
    /\ pc' = [pc EXCEPT ![i] = "returned"]
    /\ UNCHANGED <<globals, environment, uuidCounter, store, redelivery, event, message,
                   agent_assist_args, schema, lambda_enabled, tasks, outOfOrder, raised>>
\* lines 715-727 and 757: every task is done, the dispatcher returns
GatherReturns(i) ==
    /\ pc[i] = "gather"
    /\ \A t \in DOMAIN tasks[i] : tasks[i][t].pc = "done"
    /\ return_value' = [return_value EXCEPT ![i] =
           Partition(task_responses(tasks[i]), 1, @)]
    /\ pc' = [pc EXCEPT ![i] = "returned"]
    /\ UNCHANGED <<globals, environment, uuidCounter, store, redelivery, event, message,
                   agent_assist_args, schema, lambda_enabled, tasks, outOfOrder, raised>>

-----------------------------------------------------------------------------
(* One event is delivered and processed to its end *)

Deliver ==
    \E ev \in CallEvents, args \in AssistArgs("A"), sch \in BOOLEAN : Invoke(1, ev, args, sch)

Run(i) ==
    \/ MutationAnswers(i)
    \/ PersistSegment(i)
    \/ DetectSentiment(i)
    \/ RecognizeText(i)
    \/ InvokeLambda(i)
    \/ PersistDerived(i)
    \/ GatherReturns(i)

Next == Deliver \/ \E i \in Slots : Run(i)

Spec == Init /\ [][Next]_vars

-----------------------------------------------------------------------------
(* The event loop is fair: a coroutine that can take a step, and a          *)
(* dispatcher whose awaited tasks are all done, is eventually resumed.      *)

SpecFair == Init /\ [][Next]_vars /\ WF_vars(\E i \in Slots : Run(i))

-----------------------------------------------------------------------------
(* At-least-once delivery: an event that was processed is delivered again,  *)
(* to a persistence layer that applies or rejects every write.              *)

\* Number of times an event is delivered again.
MaxRedeliveries == 1

InitRedeliver ==
    /\ ModuleImported
    /\ IdleSlots
    /\ transportRaises \in BOOLEAN
    /\ collaborators = [sentiment |-> {SentimentResponse("POSITIVE")},
                        lex |-> {BotPlain, BotNoAnswer},
                        lambda |-> {[Payload |-> JsonText([message |-> "suggestion"])]},
                        fail |-> FALSE]
    /\ store = {}
    /\ redelivery = NotRedelivered

Redeliver(i) ==
    /\ pc[i] = "returned"
    /\ redelivery.n < MaxRedeliveries
    /\ redelivery' = [n |-> redelivery.n + 1, store |-> store,
                      replies |-> [t \in DOMAIN tasks[i] |-> tasks[i][t].response]]
    /\ Start(i, event[i], agent_assist_args[i], schema[i])

NextRedeliver == Deliver \/ \E i \in Slots : Redeliver(i) \/ Run(i)

SpecRedeliver == InitRedeliver /\ [][NextRedeliver]_vars

-----------------------------------------------------------------------------
(* The status-update path on its own: execute_update_call_status_mutation   *)
(* is awaited for a message of any event type, as its callers outside the   *)
(* dispatcher may do, and its response collected as at lines 680-683.  The  *)
(* message is not the dispatcher's: it has no ExpiresAfter.                 *)

UpdateCallStatus(i, m, sch) ==
    LET d == execute_update_call_status_mutation(m, sch)
    IN  /\ pc[i] = "idle"
        /\ event' = [event EXCEPT ![i] = m]
        /\ message' = [message EXCEPT ![i] = m]
        /\ schema' = [schema EXCEPT ![i] = sch]
        /\ tasks' = [tasks EXCEPT ![i] = d.tasks]
        /\ raised' = [raised EXCEPT ![i] = d.exc]
        /\ return_value' = [return_value EXCEPT ![i] =
               IF d.how = "return" THEN Collect(EmptyResult, 1, d.value) ELSE EmptyResult]
        /\ pc' = [pc EXCEPT ![i] =
               IF d.how = "raise" THEN "raised"
               ELSE IF d.how = "await" THEN "await"
               ELSE "returned"]
        /\ UNCHANGED <<globals, environment, uuidCounter, store, redelivery,
                       agent_assist_args, lambda_enabled, outOfOrder>>

CallUpdateCallStatus == \E m \in CallEvents, sch \in BOOLEAN : UpdateCallStatus(1, m, sch)

NextStatus == Deliver \/ CallUpdateCallStatus \/ \E i \in Slots : Run(i)

SpecStatus == Init /\ [][NextStatus]_vars

-----------------------------------------------------------------------------
(* Two invocations on one event loop: each slot is invoked once, with       *)
(* agent_assist_args of its own, and the coroutines of both interleave.     *)

SlotName(i) == IF i = 1 THEN "A" ELSE IF i = 2 THEN "B" ELSE "C"

InterleavedEvents == {Ev("START"), SegmentEvent("CALLER", FALSE)}

InitInterleave ==
    /\ ModuleImported
    /\ IdleSlots
    /\ transportRaises = FALSE
    /\ collaborators = [sentiment |-> {SentimentResponse("NEUTRAL")},
                        lex |-> {BotPlain},
                        lambda |-> {[Payload |-> JsonText([message |-> "suggestion"])]},
                        fail |-> FALSE]
    /\ store = {}
    /\ redelivery = NotRedelivered

DeliverInterleaved ==
    \E i \in Slots, ev \in InterleavedEvents :
        \E args \in AssistArgs(SlotName(i)) : Invoke(i, ev, args, TRUE)

NextInterleave == DeliverInterleaved \/ \E i \in Slots : Run(i)

SpecInterleave == InitInterleave /\ [][NextInterleave]_vars

-----------------------------------------------------------------------------
(* The bot's reply: one final CALLER segment is delivered with bot assist   *)
(* on, and the bot answers with any response of a bounded family: with or   *)
(* without sessionState, session attributes, appContext (JSON or not) and   *)
(* messages.                                                                *)

GotAnswerAttributes ==
    {EmptyDict, [qnabot_gotanswer |-> "false"], [qnabot_gotanswer |-> "true"]}

AppContextAttributes ==
    {EmptyDict}
    \cup {[appContext |-> text] :
            text \in {Markdown("**answer**"), Markdown(""), JsonText(EmptyDict), MalformedJson}}

SessionStates ==
    {[dialogAction |-> [type |-> type], sessionAttributes |-> Merge(g, a)] :
        type \in {"Close", "ElicitIntent"}, g \in GotAnswerAttributes,
        a \in AppContextAttributes}
    \cup {[dialogAction |-> [type |-> type]] : type \in {"Close", "ElicitIntent"}}

BotMessages ==
    { EmptyDict, [messages |-> <<>>], [messages |-> <<[content |-> "answer"]>>],
      [messages |-> <<[content |-> "answer"], [content |-> "second answer"]>>] }

BotResponses ==
    {Merge([sessionState |-> s], m) : s \in SessionStates, m \in BotMessages}
    \cup (BotMessages \ {EmptyDict})

InitLex ==
    /\ ModuleImported
    /\ IdleSlots
    /\ transportRaises = FALSE
    /\ collaborators = [sentiment |-> {SentimentResponse("NEUTRAL")},
                        lex |-> BotResponses,
                        lambda |-> {[Payload |-> JsonText([message |-> "suggestion"])]},
                        fail |-> FALSE]
    /\ store = {}
    /\ redelivery = NotRedelivered

DeliverLex ==
    \E ev \in InterleavedEvents, args \in AssistArgs("A") : Invoke(1, ev, args, TRUE)

NextLex == DeliverLex \/ \E i \in Slots : Run(i)

SpecLex == InitLex /\ [][NextLex]_vars

-----------------------------------------------------------------------------
(* Vocabulary of the properties *)

EventType(i) == Get(event[i], "EventType", "")
IsFanOut(i) == EventType(i) = "ADD_TRANSCRIPT_SEGMENT"
Dispatched(i) == pc[i] \in {"gather", "returned"}

Entries(i) == return_value[i].successes \o return_value[i].errors
EntriesOf(i, t) == {k \in DOMAIN Entries(i) : Entries(i)[k].task = t}

TasksOfKind(i, kind) == {t \in DOMAIN tasks[i] : tasks[i][t].kind = kind}
\* the calls of an api coroutine t of invocation i made
CallsOf(i, t, api) ==
    {k \in DOMAIN tasks[i][t].calls : tasks[i][t].calls[k].api = api}
Mutations(i, t) == CallsOf(i, t, "execute_gql_query_with_retries")

-----------------------------------------------------------------------------
(* C1: when the dispatcher returns from an ADD_TRANSCRIPT_SEGMENT event,    *)
(* successes and errors together hold exactly one entry per dispatched      *)
(* task, and the entry of a task is that task's own outcome whatever the    *)
(* other tasks did: nothing is removed, cancelled or changed by a sibling's *)
(* failure.                                                                 *)
C1_OneEntryPerTask ==
    \A i \in Slots :
        (pc[i] = "returned" /\ IsFanOut(i)) =>
            /\ Len(return_value[i].successes) + Len(return_value[i].errors) = Len(tasks[i])
            /\ \A t \in DOMAIN tasks[i] :
                 /\ tasks[i][t].pc = "done"
                 /\ Cardinality(EntriesOf(i, t)) = 1
                 /\ \A k \in EntriesOf(i, t) :
                      Entries(i)[k].value = tasks[i][t].result.value

\* four tasks, some failed and some succeeded, completed out of dispatch order
C1_Witness ==
    \E i \in Slots :
        /\ pc[i] = "returned" /\ IsFanOut(i)
        /\ Len(tasks[i]) = 4
        /\ outOfOrder[i]
        /\ return_value[i].errors # <<>>
        /\ return_value[i].successes # <<>>

(* C2: a duplicate-write failure ('item put condition failure') of a        *)
(* segment-add mutation never appears in the errors of the result of an     *)
(* ADD_TRANSCRIPT_SEGMENT event, whichever task issued the mutation.        *)
C2_DuplicateWriteNeverAnError ==
    \A i \in Slots :
        (pc[i] = "returned" /\ IsFanOut(i)) =>
            \A k \in DOMAIN return_value[i].errors :
                return_value[i].errors[k].value.msg # "item put condition failure"

(* C3: an invocation never ends by raising an error to its caller, whatever *)
(* the event and whatever the collaborators answer.                         *)
C3_NeverRaises == \A i \in Slots : pc[i] # "raised"

IsSingleAction(i) ==
    \/ EventType(i) \in {"START"} \cup StatusEventTypes
    \/ EventType(i) = "ADD_S3_RECORDING_URL" /\ Get(event[i], "RecordingUrl", "") # ""
    \/ EventType(i) = "UPDATE_AGENT" /\ Get(event[i], "AgentId", "") # ""

(* C4: for a single-action event, once its mutation call has answered, the  *)
(* invocation has returned a result with exactly one entry: in errors (and  *)
(* successes empty) when the call failed, by an error value or by raising;  *)
(* in successes (and errors empty) when it succeeded.                       *)
C4_SingleMutationOneEntry ==
    \A i \in Slots :
        (IsSingleAction(i) /\ tasks[i] # <<>> /\ tasks[i][1].pc = "done") =>
            /\ pc[i] = "returned"
            /\ IF isinstance_Exception(tasks[i][1].result.value)
               THEN Len(return_value[i].errors) = 1 /\ return_value[i].successes = <<>>
               ELSE Len(return_value[i].successes) = 1 /\ return_value[i].errors = <<>>

\* the replies of the collaborators are those of the first processing
SameReplies(i) ==
    /\ Len(redelivery.replies) = Len(tasks[i])
    /\ \A t \in DOMAIN tasks[i] : tasks[i][t].response = redelivery.replies[t]

(* C5: processing an ADD_TRANSCRIPT_SEGMENT event a second time, with the   *)
(* collaborators replying as they did the first time, leaves the set of     *)
(* persisted segments as the first processing left it.                      *)
C5_RedeliveryKeepsSegments ==
    \A i \in Slots :
        (pc[i] = "returned" /\ IsFanOut(i) /\ redelivery.n > 0 /\ SameReplies(i)) =>
            store = redelivery.store

IsFinalCaller(i) ==
    Get(event[i], "Channel", "") = "CALLER" /\ Get(event[i], "IsPartial", TRUE) = FALSE
LexEnabled(i) == Get(agent_assist_args[i], "lex_client", None) # None
LambdaEnabled(i) == Get(agent_assist_args[i], "lambda_client", None) # None

\* the calls of an api made by all coroutines of invocation i
AllCalls(i, api) ==
    UNION {{<<t, k>> : k \in CallsOf(i, t, api)} : t \in DOMAIN tasks[i]}
\* the mutation calls the coroutines of a kind made
MutationsOfKind(i, kind) ==
    UNION {{<<t, k>> : k \in Mutations(i, t)} : t \in TasksOfKind(i, kind)}

(* C6: for an ADD_TRANSCRIPT_SEGMENT event each assist channel gets at most *)
(* one trigger task, and gets one only when it is enabled and the segment   *)
(* is a final CALLER segment; in every other case no agent call and no      *)
(* assistant-segment mutation of that channel is made.                      *)
C6_TriggersOnlyForFinalCaller ==
    \A i \in Slots :
        IsFanOut(i) =>
            /\ Cardinality(TasksOfKind(i, "send_lex_agent_assist")) <= 1
            /\ Cardinality(TasksOfKind(i, "send_lambda_agent_assist")) <= 1
            /\ Cardinality(AllCalls(i, "recognize_text_lex")) <= 1
            /\ Cardinality(AllCalls(i, "invoke_lambda")) <= 1
            /\ (\/ TasksOfKind(i, "send_lex_agent_assist") # {}
                \/ AllCalls(i, "recognize_text_lex") # {})
                   => (IsFinalCaller(i) /\ LexEnabled(i))
            /\ (\/ TasksOfKind(i, "send_lambda_agent_assist") # {}
                \/ AllCalls(i, "invoke_lambda") # {})
                   => (IsFinalCaller(i) /\ LambdaEnabled(i))
            /\ \A t \in DOMAIN tasks[i] : \A k \in Mutations(i, t) :
                   tasks[i][t].calls[k].input["SegmentId"] # event[i]["SegmentId"]
                       => /\ IsTrigger(tasks[i][t])
                          /\ Cardinality(Mutations(i, t)) = 1

\* both channels were triggered and both persisted a reply
C6_Witness ==
    \E i \in Slots :
        /\ pc[i] = "returned" /\ IsFanOut(i)
        /\ MutationsOfKind(i, "send_lex_agent_assist") # {}
        /\ MutationsOfKind(i, "send_lambda_agent_assist") # {}

SentimentDue(i) ==
    IS_SENTIMENT_ANALYSIS_ENABLED /\ Get(event[i], "IsPartial", TRUE) = FALSE

(* C7: for an ADD_TRANSCRIPT_SEGMENT event the classifier is called, once,  *)
(* exactly when sentiment analysis is enabled and the segment is not        *)
(* partial; otherwise neither a classification call nor a mutation of the   *)
(* sentiment task occurs.                                                   *)
C7_SentimentIffEnabledAndFinal ==
    \A i \in Slots :
        IsFanOut(i) =>
            /\ Cardinality(AllCalls(i, "detect_sentiment")) <= 1
            /\ (\/ AllCalls(i, "detect_sentiment") # {}
                \/ TasksOfKind(i, "add_sentiment_to_transcript") # {})
                   => SentimentDue(i)
            /\ (pc[i] = "returned" /\ SentimentDue(i))
                   => Cardinality(AllCalls(i, "detect_sentiment")) = 1

\* the classifier was called and the enriched segment persisted
C7_Witness ==
    \E i \in Slots :
        /\ pc[i] = "returned" /\ IsFanOut(i)
        /\ AllCalls(i, "detect_sentiment") # {}
        /\ MutationsOfKind(i, "add_sentiment_to_transcript") # {}

(* C8: for an ADD_TRANSCRIPT_SEGMENT event exactly one base persist task is *)
(* dispatched whatever the flags, the channel and IsPartial; the mutation   *)
(* of the sentiment task is a call of its own, next to the base task's,     *)
(* adding a segment with the SegmentId of the event.                        *)
C8_OneBaseTaskAndSeparateSentimentMutation ==
    \A i \in Slots :
        (IsFanOut(i) /\ Dispatched(i)) =>
            /\ TasksOfKind(i, "add_transcript_segments") = {1}
            /\ \A c \in MutationsOfKind(i, "add_sentiment_to_transcript") :
                 LET call == tasks[i][c[1]].calls[c[2]]
                 IN  /\ call.mutation = "addTranscriptSegment"
                     /\ call.input["SegmentId"] = event[i]["SegmentId"]
                     /\ "Sentiment" \in DOMAIN call.input
                     /\ c[1] # 1
            /\ pc[i] = "returned" =>
                 /\ Cardinality(Mutations(i, 1)) = 1
                 /\ \A k \in Mutations(i, 1) :
                      /\ tasks[i][1].calls[k].input["SegmentId"] = event[i]["SegmentId"]
                      /\ "Sentiment" \notin DOMAIN tasks[i][1].calls[k].input
                 /\ \A t \in TasksOfKind(i, "add_sentiment_to_transcript") :
                      "Sentiment" \in DOMAIN tasks[i][t].response
                          => Cardinality(Mutations(i, t)) = 1

\* a partial segment's base task, and a final segment's two mutations
C8_Witness ==
    \E i \in Slots :
        /\ pc[i] = "returned" /\ IsFanOut(i)
        /\ Mutations(i, 1) # {}
        /\ MutationsOfKind(i, "add_sentiment_to_transcript") # {}

Kinds(i) == [t \in DOMAIN tasks[i] |-> tasks[i][t].kind]

\* a final CALLER segment with sentiment and bot assist on, function assist off
C9_Case(i) ==
    /\ IsFanOut(i) /\ Dispatched(i)
    /\ IsFinalCaller(i)
    /\ IS_SENTIMENT_ANALYSIS_ENABLED
    /\ LexEnabled(i) /\ ~LambdaEnabled(i)

(* C9 as stated: in that case exactly 2 tasks are dispatched,               *)
(* persist-with-sentiment and bot-trigger.                                  *)
C9_TwoTasks ==
    \A i \in Slots :
        C9_Case(i) => Kinds(i) = <<"add_sentiment_to_transcript", "send_lex_agent_assist">>

(* C9 amended: in that case exactly 3 tasks are dispatched: the base        *)
(* persist, persist-with-sentiment and bot-trigger, in this order.          *)
C9_ThreeTasks ==
    \A i \in Slots :
        C9_Case(i) =>
            Kinds(i) = <<"add_transcript_segments", "add_sentiment_to_transcript",
                         "send_lex_agent_assist">>

C9_Witness == \E i \in Slots : C9_Case(i) /\ pc[i] = "returned"

\* the one mutation of each row of the routing table
RowMutation(event_type) ==
    IF event_type = "START" THEN "createCall"
    ELSE IF event_type \in StatusEventTypes THEN "updateCallStatus"
    ELSE IF event_type = "ADD_TRANSCRIPT_SEGMENT" THEN "addTranscriptSegment"
    ELSE IF event_type = "ADD_S3_RECORDING_URL" THEN "updateRecordingUrl"
    ELSE IF event_type = "UPDATE_AGENT" THEN "updateAgent"
    ELSE "no mutation"

\* the exceptions the action of a row can end with
RowExceptions(event_type) ==
    LET transport == {SchemaError, "transport failure", "item put condition failure"}
    IN  IF event_type \in {"START"} \cup StatusEventTypes THEN transport
        ELSE IF event_type = "ADD_TRANSCRIPT_SEGMENT" THEN {SchemaError, KeyError}
        ELSE IF event_type = "ADD_S3_RECORDING_URL"
        THEN transport
             \cup {"TypeError: recording url doesn't exist in add s3 recording url event"}
        ELSE IF event_type = "UPDATE_AGENT"
        THEN transport \cup {"TypeError: AgentId doesn't exist in UPDATE_AGENT event"}
        ELSE {}

FanOutKinds ==
    {"add_transcript_segments", "add_sentiment_to_transcript", "send_lex_agent_assist",
     "send_lambda_agent_assist"}

(* C10: the event type alone selects the action.  Every mutation an         *)
(* invocation issues is the one of its event type's row; only               *)
(* ADD_TRANSCRIPT_SEGMENT runs fan-out tasks, classifier or agent calls;    *)
(* every other row issues at most one mutation call, and an action that     *)
(* fails does so with an error of its own row; START, with the schema       *)
(* available, has issued exactly one createCall when it ends.               *)
C10_EventTypeSelectsAction ==
    \A i \in Slots :
        /\ \A t \in DOMAIN tasks[i] :
             /\ \A k \in Mutations(i, t) :
                  tasks[i][t].calls[k].mutation = RowMutation(EventType(i))
             /\ tasks[i][t].kind \in FanOutKinds <=> IsFanOut(i)
             /\ ~IsFanOut(i) => tasks[i][t].kind = RowMutation(EventType(i))
        /\ ~IsFanOut(i) =>
             /\ Len(tasks[i]) <= 1
             /\ Cardinality(AllCalls(i, "execute_gql_query_with_retries")) <= 1
             /\ AllCalls(i, "detect_sentiment") = {}
             /\ AllCalls(i, "recognize_text_lex") = {}
             /\ AllCalls(i, "invoke_lambda") = {}
        /\ pc[i] = "raised" => raised[i] \in RowExceptions(EventType(i))
        /\ (EventType(i) = "START" /\ schema[i] /\ pc[i] \in {"returned", "raised"}) =>
             Cardinality(AllCalls(i, "execute_gql_query_with_retries")) = 1
        /\ (RowMutation(EventType(i)) = "no mutation" /\ pc[i] # "idle") =>
             pc[i] = "returned" /\ tasks[i] = <<>>

\* an ADD_CHANNEL_S3_RECORDING_URL event ended with its one status update
C10_Witness ==
    \E i \in Slots :
        /\ pc[i] = "returned"
        /\ EventType(i) = "ADD_CHANNEL_S3_RECORDING_URL"
        /\ \E k \in Mutations(i, 1) : tasks[i][1].calls[k].mutation = "updateCallStatus"

-----------------------------------------------------------------------------
\* the event lacks the field its action requires (absent or empty)
MissingField(i) ==
    \/ EventType(i) = "ADD_S3_RECORDING_URL" /\ Get(event[i], "RecordingUrl", "") = ""
    \/ EventType(i) = "UPDATE_AGENT" /\ Get(event[i], "AgentId", "") = ""

MissingFieldError(event_type) ==
    IF event_type = "ADD_S3_RECORDING_URL"
    THEN "TypeError: recording url doesn't exist in add s3 recording url event"
    ELSE "TypeError: AgentId doesn't exist in UPDATE_AGENT event"

(* C11: an ADD_S3_RECORDING_URL event without RecordingUrl (absent or       *)
(* empty) and an UPDATE_AGENT event without AgentId (absent or empty) fail  *)
(* with the missing-field error, whether or not the schema is available,    *)
(* and no mutation call is made for the event.                              *)
C11_MissingFieldFailsBeforeMutation ==
    \A i \in Slots :
        (MissingField(i) /\ pc[i] # "idle") =>
            /\ pc[i] = "raised"
            /\ raised[i] = MissingFieldError(EventType(i))
            /\ tasks[i] = <<>>
            /\ AllCalls(i, "execute_gql_query_with_retries") = {}

\* an empty RecordingUrl, with the schema available, failed
C11_Witness ==
    \E i \in Slots :
        /\ pc[i] = "raised" /\ schema[i]
        /\ EventType(i) = "ADD_S3_RECORDING_URL"
        /\ "RecordingUrl" \in DOMAIN event[i]
        /\ raised[i] = MissingFieldError("ADD_S3_RECORDING_URL")

(* C12: an event whose EventType is outside the routing table, or that has  *)
(* no EventType, ends with the result {successes: [], errors: []}: nothing  *)
(* is raised and no mutation, classifier or agent call is made.             *)
C12_UnknownEventTypeEmptyResult ==
    \A i \in Slots :
        (RowMutation(EventType(i)) = "no mutation" /\ pc[i] # "idle") =>
            /\ pc[i] = "returned"
            /\ raised[i] = NoException
            /\ return_value[i] = EmptyResult
            /\ tasks[i] = <<>>

\* an event without EventType returned the empty result
C12_Witness ==
    \E i \in Slots :
        /\ pc[i] = "returned"
        /\ "EventType" \notin DOMAIN event[i]
        /\ return_value[i] = EmptyResult
\* the status-update function was awaited on its own, not by the dispatcher
StatusPathAlone(i) == pc[i] # "idle" /\ "ExpiresAfter" \notin DOMAIN message[i]

\* the updateCallStatus calls invocation i issued
StatusUpdates(i) ==
    {c \in AllCalls(i, "execute_gql_query_with_retries") :
        tasks[i][c[1]].calls[c[2]].mutation = "updateCallStatus"}

(* C13: no updateCallStatus mutation carrying Status = STARTED is ever      *)
(* issued, by the dispatcher or by the status-update path on its own; when  *)
(* the mapped status is STARTED the path returns a trivial success without  *)
(* a transport call, whether or not the schema is available.                *)
C13_StartedNeverUpdatesStatus ==
    \A i \in Slots :
        /\ \A c \in StatusUpdates(i) : tasks[i][c[1]].calls[c[2]].input["Status"] # "STARTED"
        /\ (StatusPathAlone(i) /\ EventType(i) = "START") =>
             /\ pc[i] = "returned"
             /\ tasks[i] = <<>>
             /\ return_value[i] = Collect(EmptyResult, 1, Dict("ok"))

\* the status-update path got a START message, with the schema available
C13_Witness ==
    \E i \in Slots :
        StatusPathAlone(i) /\ EventType(i) = "START" /\ schema[i] /\ pc[i] = "returned"

\* the status table as the specification gives it
SpecifiedStatus ==
    [ START_TRANSCRIPT             |-> "TRANSCRIBING",
      CONTINUE_TRANSCRIPT          |-> "TRANSCRIBING",
      CONTINUE                     |-> "TRANSCRIBING",
      END_TRANSCRIPT               |-> "ENDED",
      END                          |-> "ENDED",
      ADD_CHANNEL_S3_RECORDING_URL |-> "ENDED",
      TRANSCRIPT_ERROR             |-> "ERRORED",
      ERROR                        |-> "ERRORED" ]

(* C14: the Status a status-update mutation carries is the value the fixed  *)
(* table gives for the event type: TRANSCRIBING for START_TRANSCRIPT,       *)
(* CONTINUE_TRANSCRIPT and CONTINUE; ENDED for END_TRANSCRIPT, END and      *)
(* ADD_CHANNEL_S3_RECORDING_URL; exactly ERRORED for TRANSCRIPT_ERROR and   *)
(* ERROR; an event type without mapping fails with the unrecognized-status  *)
(* error and issues no mutation.                                            *)
C14_StatusFromTable ==
    \A i \in Slots :
        /\ \A c \in StatusUpdates(i) :
             /\ EventType(i) \in DOMAIN SpecifiedStatus
                    => tasks[i][c[1]].calls[c[2]].input["Status"] = SpecifiedStatus[EventType(i)]
        /\ (StatusPathAlone(i) /\ EventType(i) \notin DOMAIN CALL_EVENT_TYPE_TO_STATUS) =>
             /\ pc[i] = "raised"
             /\ raised[i] = "TypeError: unrecognized status from event type in update call"
             /\ tasks[i] = <<>>
\* trigger task c got a response of its collaborator and read a reply from it
Replied(c) ==
    /\ IsTrigger(c)
    /\ c.response # NoResponse
    /\ IF c.kind = "send_lex_agent_assist"
       THEN get_lex_agent_assist_message(c.response).exc = NoException
       ELSE ~Unreadable(c.response)

ExtractedReply(c) ==
    IF c.kind = "send_lex_agent_assist"
    THEN get_lex_agent_assist_message(c.response).message
    ELSE get_lambda_agent_assist_message(c.response, "logged").message

\* the entries of task t in successes, and in errors
SuccessesOf(i, t) ==
    {k \in DOMAIN return_value[i].successes : return_value[i].successes[k].task = t}
ErrorsOf(i, t) ==
    {k \in DOMAIN return_value[i].errors : return_value[i].errors[k].task = t}

(* C15: when the dispatcher has returned, a trigger task (bot or function)  *)
(* that read a reply from a well-formed response has issued exactly one     *)
(* addTranscriptSegment mutation, carrying the reply, if the reply is       *)
(* non-empty, and none if it is empty; with an empty reply (the bot's "no   *)
(* answer" included) its outcome is one entry in successes and none in      *)
(* errors.                                                                  *)
C15_ReplyPersistedIffNonEmpty ==
    \A i \in Slots :
        (pc[i] = "returned" /\ IsFanOut(i)) =>
            \A t \in DOMAIN tasks[i] :
                Replied(tasks[i][t]) =>
                    LET reply == ExtractedReply(tasks[i][t])
                    IN  /\ Cardinality(Mutations(i, t)) = (IF reply # "" THEN 1 ELSE 0)
                        /\ \A k \in Mutations(i, t) :
                             /\ tasks[i][t].calls[k].mutation = "addTranscriptSegment"
                             /\ tasks[i][t].calls[k].input["Transcript"] = reply
                        /\ reply = "" =>
                             /\ tasks[i][t].result = Returned(Dict("{}"))
                             /\ Cardinality(SuccessesOf(i, t)) = 1
                             /\ ErrorsOf(i, t) = {}

\* the bot closed with "no answer" and the function's reply was persisted
C15_Witness ==
    \E i \in Slots :
        /\ pc[i] = "returned" /\ IsFanOut(i)
        /\ \E t \in TasksOfKind(i, "send_lex_agent_assist") :
             /\ tasks[i][t].response = BotNoAnswer
             /\ SuccessesOf(i, t) # {}
        /\ MutationsOfKind(i, "send_lambda_agent_assist") # {}

(* C16: when the payload of the function's response has no 'message' field  *)
(* or cannot be parsed, the function trigger task issues no mutation and    *)
(* ends with an empty result: at the return of the dispatcher it is one     *)
(* entry in successes and none in errors, and nothing was raised.           *)
C16_UnreadablePayloadIsEmptyReply ==
    \A i \in Slots :
        \A t \in TasksOfKind(i, "send_lambda_agent_assist") :
            (tasks[i][t].response # NoResponse /\ Unreadable(tasks[i][t].response)) =>
                /\ Mutations(i, t) = {}
                /\ tasks[i][t].result = Returned(Dict("{}"))
                /\ pc[i] \in {"gather", "returned"}
                /\ pc[i] = "returned" =>
                     /\ Cardinality(SuccessesOf(i, t)) = 1
                     /\ ErrorsOf(i, t) = {}

(* C17: the segment the sentiment task persists carries Sentiment and       *)
(* SentimentScore of the classifier's response, and SentimentWeighted       *)
(* exactly when the category is POSITIVE or NEGATIVE: none for NEUTRAL and  *)
(* MIXED.                                                                   *)
C17_WeightedIffPositiveOrNegative ==
    \A i \in Slots :
        \A c \in MutationsOfKind(i, "add_sentiment_to_transcript") :
            LET input == tasks[i][c[1]].calls[c[2]].input
                response == tasks[i][c[1]].response
            IN  /\ {"Sentiment", "SentimentScore"} \subseteq DOMAIN input
                /\ input["Sentiment"] = response["Sentiment"]
                /\ input["SentimentScore"] = response["SentimentScore"]
                /\ "SentimentWeighted" \in DOMAIN input
                       <=> response["Sentiment"] \in {"POSITIVE", "NEGATIVE"}

\* a NEUTRAL segment was persisted without SentimentWeighted
C17_Witness ==
    \E i \in Slots :
        \E c \in MutationsOfKind(i, "add_sentiment_to_transcript") :
            /\ tasks[i][c[1]].response["Sentiment"] = "NEUTRAL"
            /\ "SentimentWeighted" \notin DOMAIN tasks[i][c[1]].calls[c[2]].input
(* C18: when invocations with different agent_assist_args interleave on one *)
(* event loop, every bot trigger calls recognize_text_lex with the          *)
(* lex_client and bot id of its own invocation, and every function trigger  *)
(* calls invoke_lambda with the lambda_client and function ARN of its own   *)
(* invocation.                                                              *)
C18_TriggersUseOwnArguments ==
    \A i \in Slots :
        \A t \in DOMAIN tasks[i] :
            \A k \in DOMAIN tasks[i][t].calls :
                LET call == tasks[i][t].calls[k]
                    args == agent_assist_args[i]
                IN  /\ call.api = "recognize_text_lex" =>
                         /\ call.lex_client = Get(args, "lex_client", None)
                         /\ call.bot_id = Get(args, "lex_bot_id", "")
                    /\ call.api = "invoke_lambda" =>
                         /\ call.lambda_client = Get(args, "lambda_client", None)
                         /\ call.lambda_agent_assist_function_arn
                                = Get(args, "lambda_agent_assist_function_arn", "")
(* C19: for an ADD_TRANSCRIPT_SEGMENT event the dispatcher has returned     *)
(* only when every dispatched task is done, whether it returned or raised,  *)
(* and on a fair event loop a dispatcher that awaits its tasks eventually   *)
(* returns: no task is cancelled or left behind because a sibling failed    *)
(* or finished first.                                                       *)
C19_ReturnsAfterAllTasks ==
    /\ [](\A i \in Slots :
            (pc[i] = "returned" /\ IsFanOut(i)) =>
                \A t \in DOMAIN tasks[i] :
                    /\ tasks[i][t].pc = "done"
                    /\ tasks[i][t].result.status \in {"returned", "raised"})
    /\ \A i \in Slots : (pc[i] = "gather") ~> (pc[i] = "returned")

\* the base task failed first, a later sibling still persisted its segment
C19_Witness ==
    \E i \in Slots :
        /\ pc[i] = "returned" /\ IsFanOut(i)
        /\ tasks[i][1].result.status = "raised"
        /\ \E t \in DOMAIN tasks[i] :
             /\ t > 1
             /\ Mutations(i, t) # {}
             /\ tasks[i][t].result.status = "returned"
             /\ ~isinstance_Exception(tasks[i][t].result.value)
\* the sentiment task t called the classifier and the call raised
ClassificationFailed(i, t) ==
    /\ tasks[i][t].kind = "add_sentiment_to_transcript"
    /\ CallsOf(i, t, "detect_sentiment") # {}
    /\ tasks[i][t].response = NoResponse

(* C20: the sentiment task calls the classifier once, and before its        *)
(* mutation; when the classification call fails the task issues no          *)
(* mutation and ends with that failure, which is its one entry, in errors,  *)
(* when the dispatcher returns, while the base persist task has issued its  *)
(* own mutation and has its own outcome as its entry.                       *)
C20_ClassifierOnceBeforePersist ==
    \A i \in Slots :
        \A t \in TasksOfKind(i, "add_sentiment_to_transcript") :
            /\ Cardinality(CallsOf(i, t, "detect_sentiment")) <= 1
            /\ tasks[i][t].pc # "created" =>
                   Cardinality(CallsOf(i, t, "detect_sentiment")) = 1
            /\ \A k \in Mutations(i, t) :
                   \E j \in CallsOf(i, t, "detect_sentiment") : j < k
            /\ ClassificationFailed(i, t) =>
                 /\ Mutations(i, t) = {}
                 /\ tasks[i][t].result = Raised(Exception("detect_sentiment failed"))
                 /\ pc[i] = "returned" =>
                      /\ Cardinality(ErrorsOf(i, t)) = 1
                      /\ SuccessesOf(i, t) = {}
                      /\ \A k \in ErrorsOf(i, t) :
                           return_value[i].errors[k].value = tasks[i][t].result.value
                      /\ tasks[i][1].kind = "add_transcript_segments"
                      /\ Cardinality(Mutations(i, 1)) = 1
                      /\ Cardinality(EntriesOf(i, 1)) = 1
                      /\ \A k \in EntriesOf(i, 1) :
                           Entries(i)[k].value = tasks[i][1].result.value

\* the classification failed and the base segment was persisted
C20_Witness ==
    \E i \in Slots :
        /\ pc[i] = "returned"
        /\ \E t \in DOMAIN tasks[i] : ClassificationFailed(i, t)
        /\ tasks[i][1].result = Returned(Response("addTranscriptSegment"))
\* the reply the stated precedence gives for a response
ReplyByPrecedence(bot_response) ==
    LET state == Get(bot_response, "sessionState", EmptyDict)
        type == Get(Get(state, "dialogAction", EmptyDict), "type", None)
        attributes == Get(state, "sessionAttributes", EmptyDict)
        context == Get(attributes, "appContext", MalformedJson)
        markdown == Get(Get(context.value, "altMessages", EmptyDict), "markdown", "")
        messages == Get(bot_response, "messages", <<>>)
    IN  IF type = "Close" /\ Get(attributes, "qnabot_gotanswer", None) = "false" THEN ""
        ELSE IF markdown # "" THEN markdown
        ELSE IF messages # <<>> THEN messages[1]["content"]
        ELSE ""

\* the responses get_lex_agent_assist_message reads without raising: the
\* dialog action type is there, and appContext, when there, is JSON
Readable(bot_response) ==
    /\ "sessionState" \in DOMAIN bot_response
    /\ "dialogAction" \in DOMAIN bot_response["sessionState"]
    /\ "type" \in DOMAIN bot_response["sessionState"]["dialogAction"]
    /\ LET attributes == Get(bot_response["sessionState"], "sessionAttributes", EmptyDict)
       IN  \/ "appContext" \notin DOMAIN attributes
           \/ attributes["appContext"].json = "ok"
           \/ is_qnabot_noanswer(bot_response)

\* the bot trigger tasks that got a response
Answered(i) ==
    {t \in TasksOfKind(i, "send_lex_agent_assist") : tasks[i][t].response # NoResponse}

Triggers(i) == {t \in DOMAIN tasks[i] : IsTrigger(tasks[i][t])}

\* the assistant segments of trigger t: the one it was built with and the
\* inputs of the mutations it issued
AssistantSegments(i, t) ==
    {tasks[i][t].input} \cup {tasks[i][t].calls[k].input : k \in Mutations(i, t)}

(* C22: every assistant segment a trigger builds has Channel                *)
(* AGENT_ASSISTANT, the CallId and StartTime of the triggering segment, an  *)
(* EndTime that is the source's plus the fixed offset and so strictly       *)
(* greater, and a SegmentId that differs from the source's, from the other  *)
(* trigger's, and, until it is persisted, from every SegmentId persisted    *)
(* before, in this or an earlier processing.                                *)
C22_AssistantSegmentShape ==
    \A i \in Slots :
        \A t \in Triggers(i) :
            /\ \A segment \in AssistantSegments(i, t) :
                 /\ segment["Channel"] = "AGENT_ASSISTANT"
                 /\ segment["CallId"] = event[i]["CallId"]
                 /\ segment["StartTime"] = event[i]["StartTime"]
                 /\ segment["EndTime"] = event[i]["EndTime"] + EndTimeOffset
                 /\ segment["EndTime"] > event[i]["EndTime"]
                 /\ segment["SegmentId"] = tasks[i][t].input["SegmentId"]
                 /\ segment["SegmentId"] # event[i]["SegmentId"]
            /\ \A u \in Triggers(i) \ {t} :
                 tasks[i][u].input["SegmentId"] # tasks[i][t].input["SegmentId"]
            /\ Mutations(i, t) = {} => tasks[i][t].input["SegmentId"] \notin store

\* the event was processed again and both triggers persisted their replies
C22_Witness ==
    \E i \in Slots :
        /\ redelivery.n > 0 /\ pc[i] = "returned"
        /\ MutationsOfKind(i, "send_lex_agent_assist") # {}
        /\ MutationsOfKind(i, "send_lambda_agent_assist") # {}
        /\ Cardinality(store) >= 4
(* C23: when an invocation has finished, by returning or by raising, the    *)
(* message it was passed has exactly the keys and values it had on entry.   *)
C23_MessageUnchanged ==
    \A i \in Slots :
        pc[i] \in {"returned", "raised"} => message[i] = event[i]

\* the entries of a list are in dispatch order, each the outcome of its task
InDispatchOrder(i, entries) ==
    /\ \A j, k \in DOMAIN entries : j < k => entries[j].task < entries[k].task
    /\ \A k \in DOMAIN entries :
         /\ entries[k].task \in DOMAIN tasks[i]
         /\ entries[k].value = tasks[i][entries[k].task].result.value

(* C24: whatever the order in which the tasks of an ADD_TRANSCRIPT_SEGMENT  *)
(* event completed, successes and errors each list their entries in         *)
(* dispatch order, every entry being the outcome of its task, an exception  *)
(* in errors and anything else in successes: the result is determined by    *)
(* the per-task outcomes alone.                                             *)
C24_ResultInDispatchOrder ==
    \A i \in Slots :
        (pc[i] = "returned" /\ IsFanOut(i)) =>
            /\ InDispatchOrder(i, return_value[i].successes)
            /\ InDispatchOrder(i, return_value[i].errors)
            /\ \A t \in DOMAIN tasks[i] :
                 IF isinstance_Exception(tasks[i][t].result.value)
                 THEN ErrorsOf(i, t) # {} /\ SuccessesOf(i, t) = {}
                 ELSE SuccessesOf(i, t) # {} /\ ErrorsOf(i, t) = {}

\* tasks completed out of dispatch order, two succeeded and two failed
C24_Witness ==
    \E i \in Slots :
        /\ pc[i] = "returned" /\ IsFanOut(i)
        /\ outOfOrder[i]
        /\ Len(return_value[i].successes) = 2
        /\ Len(return_value[i].errors) = 2
====
